---- MODULE Spec2Model ----
(***************************************************************************)
(* The chat relay of src/server.js: the synchronous-persist server         *)
(* (lines 1-195) and the queued-persistence server (lines 196-341, the     *)
(* Queued* and Saver* actions).  Several process instances share one       *)
(* message store                                                           *)
(* (MongoDB) and one publish/subscribe channel (Redis "chat"); each        *)
(* instance has its own onlineUsers map and its own sockets.  Every await  *)
(* of a handler is a point where other handlers run, so a handler is a     *)
(* sequence of steps: the store or bus operation it awaits, then its       *)
(* continuation.                                                           *)
(***************************************************************************)
EXTENDS Bags, FiniteSets, Integers, Sequences, TLC

\* ------------------------------------------------------------- bounds
\* send_message requests made in one run (each constructs one document)
MaxSends == 1
\* delivered and mark_as_read requests handled in one run (they may all be
\* in flight at once)
MaxStatusReqs == 2
\* documents already in the Message collection when the servers start
MaxStored == 1
\* longest identity string given to the conversation key derivation
MaxIdLen == 3
\* send_message requests made to the queued-persistence server in one run
MaxQueued == 2

\* ------------------------------------------------------------- universe
\* Process instances sharing the store and the bus.
Instances == {1, 2}
\* socket.id values: s1 and s2 connect to instance 1, s3 to instance 2.
Sockets == {"s1", "s2", "s3"}
InstOf(s) == IF s = "s3" THEN 2 ELSE 1
\* One socket on each instance.
SocketPair == {"s1", "s3"}
\* Map.get's undefined: no socket id.
None == "none"
\* A socket.memberstackId that is unset: falsy, like the empty string.
NoId == <<>>
\* Strings are sequences of UTF-16 code units: "_" is 95, "a" 97, "b" 98.
Underscore == 95
IdA == <<97>>
IdB == <<98>>
\* The identities clients register and address in the server model.
Users == {IdA, IdB}
\* tempId values a client attaches to a send.
TempIds == {7}

\* ------------------------------------------------------------- strings
\* x < y as Array.prototype.sort compares strings: by code unit, a proper
\* prefix first.
RECURSIVE StrLess(_, _)
StrLess(x, y) ==
  IF y = <<>> THEN FALSE
  ELSE IF x = <<>> THEN TRUE
  ELSE IF Head(x) # Head(y) THEN Head(x) < Head(y)
  ELSE StrLess(Tail(x), Tail(y))

\* [from, to].sort()
SortPair(a, b) == IF StrLess(b, a) THEN <<b, a>> ELSE <<a, b>>

\* ConversationId without the sort.
ConversationId_Unsorted(a, b) == a \o <<Underscore>> \o b

\* `${users[0]}_${users[1]}`
ConversationId(a, b) ==
  LET users == SortPair(a, b) IN users[1] \o <<Underscore>> \o users[2]

VARIABLES
  sockState,      \* socket -> "new" | "open" | "closed"
  memberstackId,  \* socket -> the identity of its last register, or NoId
  onlineUsers,    \* instance -> (identity -> socket id or None)
  messages,       \* the Message collection: _id -> document
  nextId,         \* the next document _id
  statusReqs,     \* delivered and mark_as_read handlers started so far
  sendTasks,      \* bag of send_message handlers suspended at an await
  deliveredTasks, \* bag of delivered handlers suspended at an await
  readTasks,      \* bag of mark_as_read handlers suspended at an await
  chat,           \* instance -> the "chat" events not yet handled by it
  emitted,        \* bag of the events emitted to sockets
  errors,         \* what console.error has logged
  track,          \* per message and instance: the recipient's registration
                  \* since the send, and whether the bus event was handled
  keyIn,          \* arguments of a conversation key derivation
  keyOut,         \* its results
  returned,       \* the status requests that returned without a write
  mongo_save_queue, \* the Redis list "mongo_save_queue", head first
  saver,          \* instance -> where its mongoSaverWorker stands
  pushed,         \* the messages pushed onto the list so far, in order
  now             \* the clock read by new Date()

vars == <<sockState, memberstackId, onlineUsers, messages, nextId, statusReqs,
          sendTasks, deliveredTasks, readTasks, chat, emitted, errors, track,
          keyIn, keyOut, returned, mongo_save_queue, saver, pushed, now>>


\* ------------------------------------------------------------- helpers
Changed == "changed"

One(x) == SetToBag({x})

Event(ev, s, id, status, tempId) ==
  [ev |-> ev, sock |-> s, id |-> id, status |-> status, tempId |-> tempId]

\* onlineUsers.get(u) on instance i
Lookup(i, u) == onlineUsers[i][u]

\* The registration history of the recipients of in-flight messages, after
\* onlineUsers changes to reg: an entry that differs from the one recorded
\* at the send is marked Changed until the instance has handled the event.
Retrack(reg) ==
  [id \in DOMAIN track |->
    [i \in Instances |->
      IF ~track[id][i].handled /\ track[id][i].reg # reg[i][track[id][i].to]
      THEN [track[id][i] EXCEPT !.reg = Changed]
      ELSE track[id][i]]]

\* limit = 50, the default page size of /messages
DefaultLimit == 50

\* The ids of S in ascending order.
Ascending(S) ==
  CHOOSE f \in [1..Cardinality(S) -> S] :
    \A i, j \in 1..Cardinality(S) : i < j => f[i] < f[j]

\* GET /messages?user1=..&user2=..&before=..&limit=..: of the documents of
\* the conversation (older than the cursor, if one is given) the `limit`
\* newest, oldest first.  before = 0 stands for no cursor.
MessagesQuery(user1, user2, before, limit) ==
  LET conversationId == ConversationId(user1, user2)
      found == {id \in DOMAIN messages :
                  /\ messages[id].conversationId = conversationId
                  /\ (before # 0 => id < before)}
      page == {id \in found : Cardinality({j \in found : j > id}) < limit}
  IN [k \in 1..Cardinality(page) |-> messages[Ascending(page)[k]]]

\* ------------------------------------------------------------- initial state
Init ==
  /\ sockState = [s \in Sockets |-> "new"]
  /\ memberstackId = [s \in Sockets |-> NoId]
  /\ onlineUsers = [i \in Instances |-> [u \in Users |-> None]]
  /\ messages = <<>>
  /\ nextId = 1
  /\ statusReqs = 0
  /\ sendTasks = EmptyBag
  /\ deliveredTasks = EmptyBag
  /\ readTasks = EmptyBag
  /\ chat = [i \in Instances |-> <<>>]
  /\ emitted = EmptyBag
  /\ errors = {}
  /\ track = <<>>
  /\ keyIn = <<>>
  /\ keyOut = <<>>
  /\ returned = {}
  /\ mongo_save_queue = <<>>
  /\ saver = [i \in Instances |-> [pc |-> "brpop"]]
  /\ pushed = <<>>
  /\ now = 1

\* ------------------------------------------------------------- connections
\* io.on("connection")
Connect(s) ==
  /\ sockState[s] = "new"
  /\ sockState' = [sockState EXCEPT ![s] = "open"]
  /\ UNCHANGED <<memberstackId, onlineUsers, track>>
  /\ UNCHANGED <<messages, nextId, statusReqs, emitted, errors>>
  /\ UNCHANGED <<sendTasks, deliveredTasks, readTasks, chat, keyIn, keyOut>>
  /\ UNCHANGED <<returned, mongo_save_queue, saver, pushed, now>>

\* socket.on("register")
Register(s, u) ==
  /\ sockState[s] = "open"
  /\ onlineUsers' = [onlineUsers EXCEPT ![InstOf(s)][u] = s]
  /\ memberstackId' = [memberstackId EXCEPT ![s] = u]
  /\ track' = Retrack(onlineUsers')
  /\ UNCHANGED sockState
  /\ UNCHANGED <<messages, nextId, statusReqs, emitted, errors>>
  /\ UNCHANGED <<sendTasks, deliveredTasks, readTasks, chat, keyIn, keyOut>>
  /\ UNCHANGED <<returned, mongo_save_queue, saver, pushed, now>>

\* socket.on("disconnect")
Disconnect(s) ==
  /\ sockState[s] = "open"
  /\ sockState' = [sockState EXCEPT ![s] = "closed"]
  /\ onlineUsers' =
       IF memberstackId[s] # NoId
       THEN [onlineUsers EXCEPT ![InstOf(s)][memberstackId[s]] = None]
       ELSE onlineUsers
  /\ track' = Retrack(onlineUsers')
  /\ UNCHANGED memberstackId
  /\ UNCHANGED <<messages, nextId, statusReqs, emitted, errors>>
  /\ UNCHANGED <<sendTasks, deliveredTasks, readTasks, chat, keyIn, keyOut>>
  /\ UNCHANGED <<returned, mongo_save_queue, saver, pushed, now>>

\* ------------------------------------------------------------- send_message
\* SendMessage going on to acknowledge and publish after a failed insert.
SendMessage_IgnoreFailure(s, from, to, tempId, ok) ==
  /\ sockState[s] = "open"
  /\ nextId <= MaxSends
  /\ LET msg == [_id |-> nextId, conversationId |-> ConversationId(from, to),
                 from |-> from, to |-> to, status |-> "sent"]
     IN /\ sendTasks' = sendTasks (+)
             One([pc |-> "ack", sock |-> s, tempId |-> tempId, msg |-> msg])
        /\ track' = (nextId :>
             [i \in Instances |->
               [to |-> to, reg |-> Lookup(i, to), handled |-> FALSE]]) @@ track
        /\ IF ok
           THEN /\ messages' = (nextId :> msg) @@ messages
                /\ UNCHANGED errors
           ELSE /\ errors' = errors \cup {[at |-> "send_message", id |-> nextId]}
                /\ UNCHANGED messages
  /\ nextId' = nextId + 1
  /\ UNCHANGED <<sockState, memberstackId, onlineUsers>>
  /\ UNCHANGED <<statusReqs, emitted>>
  /\ UNCHANGED <<deliveredTasks, readTasks, chat, keyIn, keyOut>>
  /\ UNCHANGED <<returned, mongo_save_queue, saver, pushed, now>>

\* The handler up to its first await: the document is built and
\* Message.create inserts it (ok) or rejects (~ok), which the catch logs.
SendMessage(s, from, to, tempId, ok) ==
  /\ sockState[s] = "open"
  /\ nextId <= MaxSends
  /\ LET msg == [_id |-> nextId, conversationId |-> ConversationId(from, to),
                 from |-> from, to |-> to, status |-> "sent"]
     IN IF ok
        THEN /\ messages' = (nextId :> msg) @@ messages
             /\ sendTasks' = sendTasks (+)
                  One([pc |-> "ack", sock |-> s, tempId |-> tempId, msg |-> msg])
             /\ track' = (nextId :>
                  [i \in Instances |->
                    [to |-> to, reg |-> Lookup(i, to), handled |-> FALSE]]) @@ track
             /\ UNCHANGED errors
        ELSE /\ errors' = errors \cup {[at |-> "send_message", id |-> nextId]}
             /\ UNCHANGED <<messages, sendTasks, track>>
  /\ nextId' = nextId + 1
  /\ UNCHANGED <<sockState, memberstackId, onlineUsers>>
  /\ UNCHANGED <<statusReqs, emitted>>
  /\ UNCHANGED <<deliveredTasks, readTasks, chat, keyIn, keyOut>>
  /\ UNCHANGED <<returned, mongo_save_queue, saver, pushed, now>>

\* SendAck emitting no message_sent when the recipient is not registered on
\* the sender's instance.
SendAck_OnlyIfRecipientOnline(t) ==
  /\ BagIn(t, sendTasks)
  /\ t.pc = "ack"
  /\ emitted' =
       IF Lookup(InstOf(t.sock), t.msg.to) # None
       THEN emitted (+)
              One(Event("message_sent", t.sock, t.msg._id, t.msg.status, t.tempId))
       ELSE emitted
  /\ sendTasks' = (sendTasks (-) One(t)) (+) One([t EXCEPT !.pc = "publish"])
  /\ UNCHANGED <<sockState, memberstackId, onlineUsers, track>>
  /\ UNCHANGED <<messages, nextId, statusReqs, errors>>
  /\ UNCHANGED <<deliveredTasks, readTasks, chat, keyIn, keyOut>>
  /\ UNCHANGED <<returned, mongo_save_queue, saver, pushed, now>>

\* After the insert: socket.emit("message_sent", ...), then the publish is
\* issued.
SendAck(t) ==
  /\ BagIn(t, sendTasks)
  /\ t.pc = "ack"
  /\ emitted' = emitted (+)
       One(Event("message_sent", t.sock, t.msg._id, t.msg.status, t.tempId))
  /\ sendTasks' = (sendTasks (-) One(t)) (+) One([t EXCEPT !.pc = "publish"])
  /\ UNCHANGED <<sockState, memberstackId, onlineUsers, track>>
  /\ UNCHANGED <<messages, nextId, statusReqs, errors>>
  /\ UNCHANGED <<deliveredTasks, readTasks, chat, keyIn, keyOut>>
  /\ UNCHANGED <<returned, mongo_save_queue, saver, pushed, now>>

\* redisPub.publish("chat", ...): every subscribed instance gets the event
\* (ok), or the publish rejects and the catch logs it (~ok).
Publish(t, ok) ==
  /\ BagIn(t, sendTasks)
  /\ t.pc = "publish"
  /\ sendTasks' = sendTasks (-) One(t)
  /\ IF ok
     THEN /\ chat' = [i \in Instances |-> Append(chat[i], t.msg)]
          /\ UNCHANGED errors
     ELSE /\ errors' = errors \cup {[at |-> "publish", id |-> t.msg._id]}
          /\ UNCHANGED chat
  /\ UNCHANGED <<sockState, memberstackId, onlineUsers, track>>
  /\ UNCHANGED <<messages, nextId, statusReqs, emitted>>
  /\ UNCHANGED <<deliveredTasks, readTasks, keyIn, keyOut>>
  /\ UNCHANGED <<returned, mongo_save_queue, saver, pushed, now>>

\* BusDeliver looking up the sender instead of the recipient.
BusDeliver_ToSender(i) ==
  /\ chat[i] # <<>>
  /\ LET msg == Head(chat[i])
         receiverSocketId == Lookup(i, msg.from)
     IN /\ emitted' =
             IF receiverSocketId # None
             THEN emitted (+)
                    One(Event("new_message", receiverSocketId, msg._id, msg.status, 0))
             ELSE emitted
        /\ track' = [track EXCEPT ![msg._id][i].handled = TRUE]
  /\ chat' = [chat EXCEPT ![i] = Tail(chat[i])]
  /\ UNCHANGED <<sockState, memberstackId, onlineUsers>>
  /\ UNCHANGED <<messages, nextId, statusReqs, errors>>
  /\ UNCHANGED <<sendTasks, deliveredTasks, readTasks, keyIn, keyOut>>
  /\ UNCHANGED <<returned, mongo_save_queue, saver, pushed, now>>

\* BusDeliver emitting with io.emit: to every open socket of the instance.
BusDeliver_Broadcast(i) ==
  /\ chat[i] # <<>>
  /\ LET msg == Head(chat[i])
     IN /\ emitted' = emitted (+)
             SetToBag({Event("new_message", s, msg._id, msg.status, 0) :
                         s \in {x \in Sockets : InstOf(x) = i /\ sockState[x] = "open"}})
        /\ track' = [track EXCEPT ![msg._id][i].handled = TRUE]
  /\ chat' = [chat EXCEPT ![i] = Tail(chat[i])]
  /\ UNCHANGED <<sockState, memberstackId, onlineUsers>>
  /\ UNCHANGED <<messages, nextId, statusReqs, errors>>
  /\ UNCHANGED <<sendTasks, deliveredTasks, readTasks, keyIn, keyOut>>
  /\ UNCHANGED <<returned, mongo_save_queue, saver, pushed, now>>

\* BusDeliver also echoing the message to the sender's socket.
BusDeliver_EchoSender(i) ==
  /\ chat[i] # <<>>
  /\ LET msg == Head(chat[i])
         targets == {Lookup(i, msg.to), Lookup(i, msg.from)} \ {None}
     IN /\ emitted' = emitted (+)
             SetToBag({Event("new_message", s, msg._id, msg.status, 0) : s \in targets})
        /\ track' = [track EXCEPT ![msg._id][i].handled = TRUE]
  /\ chat' = [chat EXCEPT ![i] = Tail(chat[i])]
  /\ UNCHANGED <<sockState, memberstackId, onlineUsers>>
  /\ UNCHANGED <<messages, nextId, statusReqs, errors>>
  /\ UNCHANGED <<sendTasks, deliveredTasks, readTasks, keyIn, keyOut>>
  /\ UNCHANGED <<returned, mongo_save_queue, saver, pushed, now>>

\* redisSub.on("message") on instance i
BusDeliver(i) ==
  /\ chat[i] # <<>>
  /\ LET msg == Head(chat[i])
         receiverSocketId == Lookup(i, msg.to)
     IN /\ emitted' =
             IF receiverSocketId # None
             THEN emitted (+)
                    One(Event("new_message", receiverSocketId, msg._id, msg.status, 0))
             ELSE emitted
        /\ track' = [track EXCEPT ![msg._id][i].handled = TRUE]
  /\ chat' = [chat EXCEPT ![i] = Tail(chat[i])]
  /\ UNCHANGED <<sockState, memberstackId, onlineUsers>>
  /\ UNCHANGED <<messages, nextId, statusReqs, errors>>
  /\ UNCHANGED <<sendTasks, deliveredTasks, readTasks, keyIn, keyOut>>
  /\ UNCHANGED <<returned, mongo_save_queue, saver, pushed, now>>

\* ------------------------------------------------------------- delivered
\* Delivered without the status check: any stored message goes on to the save.
Delivered_NoStatusCheck(s, messageId) ==
  /\ sockState[s] = "open"
  /\ statusReqs < MaxStatusReqs
  /\ statusReqs' = statusReqs + 1
  /\ IF messageId \in DOMAIN messages
     THEN /\ deliveredTasks' = deliveredTasks (+)
               One([pc |-> "save", inst |-> InstOf(s), msg |-> messages[messageId]])
          /\ UNCHANGED returned
     ELSE /\ returned' = returned \cup {[messageId |-> messageId, status |-> None]}
          /\ UNCHANGED deliveredTasks
  /\ UNCHANGED <<sockState, memberstackId, onlineUsers, track>>
  /\ UNCHANGED <<messages, nextId, emitted, errors>>
  /\ UNCHANGED <<sendTasks, readTasks, chat, keyIn, keyOut>>
  /\ UNCHANGED <<mongo_save_queue, saver, pushed, now>>

\* The handler up to its first await: Message.findById reads the document;
\* the handler returns if there is none or its status is not "sent" (the
\* request and the status it met are then noted in `returned`).
Delivered(s, messageId) ==
  /\ sockState[s] = "open"
  /\ statusReqs < MaxStatusReqs
  /\ statusReqs' = statusReqs + 1
  /\ IF messageId \in DOMAIN messages /\ messages[messageId].status = "sent"
     THEN /\ deliveredTasks' = deliveredTasks (+)
               One([pc |-> "save", inst |-> InstOf(s), msg |-> messages[messageId]])
          /\ UNCHANGED returned
     ELSE /\ returned' = returned \cup
               {[messageId |-> messageId,
                 status |-> IF messageId \in DOMAIN messages
                            THEN messages[messageId].status ELSE None]}
          /\ UNCHANGED deliveredTasks
  /\ UNCHANGED <<sockState, memberstackId, onlineUsers, track>>
  /\ UNCHANGED <<messages, nextId, emitted, errors>>
  /\ UNCHANGED <<sendTasks, readTasks, chat, keyIn, keyOut>>
  /\ UNCHANGED <<mongo_save_queue, saver, pushed, now>>

\* msg.status = "delivered"; msg.save() writes the modified path of the
\* document read earlier: {$set: {status: "delivered"}} on its _id.
DeliveredSave(t) ==
  /\ BagIn(t, deliveredTasks)
  /\ t.pc = "save"
  /\ messages' = [messages EXCEPT ![t.msg._id].status = "delivered"]
  /\ deliveredTasks' =
       (deliveredTasks (-) One(t)) (+) One([t EXCEPT !.pc = "notify"])
  /\ UNCHANGED <<sockState, memberstackId, onlineUsers, track>>
  /\ UNCHANGED <<nextId, statusReqs, emitted, errors>>
  /\ UNCHANGED <<sendTasks, readTasks, chat, keyIn, keyOut>>
  /\ UNCHANGED <<returned, mongo_save_queue, saver, pushed, now>>

\* DeliveredNotify notifying the recipient instead of the original sender.
DeliveredNotify_ToRecipient(t) ==
  /\ BagIn(t, deliveredTasks)
  /\ t.pc = "notify"
  /\ LET senderSocketId == Lookup(t.inst, t.msg.to)
     IN emitted' =
          IF senderSocketId # None
          THEN emitted (+)
                 One(Event("status_update", senderSocketId, t.msg._id, "delivered", 0))
          ELSE emitted
  /\ deliveredTasks' = deliveredTasks (-) One(t)
  /\ UNCHANGED <<sockState, memberstackId, onlineUsers, track>>
  /\ UNCHANGED <<messages, nextId, statusReqs, errors>>
  /\ UNCHANGED <<sendTasks, readTasks, chat, keyIn, keyOut>>
  /\ UNCHANGED <<returned, mongo_save_queue, saver, pushed, now>>

\* After the save: the original sender is looked up in this instance's
\* onlineUsers and, if found, sent status_update.
DeliveredNotify(t) ==
  /\ BagIn(t, deliveredTasks)
  /\ t.pc = "notify"
  /\ LET senderSocketId == Lookup(t.inst, t.msg.from)
     IN emitted' =
          IF senderSocketId # None
          THEN emitted (+)
                 One(Event("status_update", senderSocketId, t.msg._id, "delivered", 0))
          ELSE emitted
  /\ deliveredTasks' = deliveredTasks (-) One(t)
  /\ UNCHANGED <<sockState, memberstackId, onlineUsers, track>>
  /\ UNCHANGED <<messages, nextId, statusReqs, errors>>
  /\ UNCHANGED <<sendTasks, readTasks, chat, keyIn, keyOut>>
  /\ UNCHANGED <<returned, mongo_save_queue, saver, pushed, now>>

\* ------------------------------------------------------------- mark_as_read
\* Message.find({from, to, status: {$ne: "read"}}, {_id: 1})
Unread(from, to) ==
  {id \in DOMAIN messages :
     /\ messages[id].from = from
     /\ messages[id].to = to
     /\ messages[id].status # "read"}

\* The handler up to its first await: the unread ids are read; the handler
\* returns if there are none.
MarkAsRead(s, from, to) ==
  /\ sockState[s] = "open"
  /\ statusReqs < MaxStatusReqs
  /\ Unread(from, to) # {}
  /\ statusReqs' = statusReqs + 1
  /\ readTasks' = readTasks (+)
       One([pc |-> "update", inst |-> InstOf(s), from |-> from, to |-> to,
            ids |-> Unread(from, to)])
  /\ UNCHANGED <<sockState, memberstackId, onlineUsers, track>>
  /\ UNCHANGED <<messages, nextId, emitted, errors>>
  /\ UNCHANGED <<sendTasks, deliveredTasks, chat, keyIn, keyOut>>
  /\ UNCHANGED <<returned, mongo_save_queue, saver, pushed, now>>

\* Message.updateMany({_id: {$in: ids}}, {status: "read"})
MarkAsReadUpdate(t) ==
  /\ BagIn(t, readTasks)
  /\ t.pc = "update"
  /\ messages' = [id \in DOMAIN messages |->
       IF id \in t.ids THEN [messages[id] EXCEPT !.status = "read"]
       ELSE messages[id]]
  /\ readTasks' = (readTasks (-) One(t)) (+) One([t EXCEPT !.pc = "notify"])
  /\ UNCHANGED <<sockState, memberstackId, onlineUsers, track>>
  /\ UNCHANGED <<nextId, statusReqs, emitted, errors>>
  /\ UNCHANGED <<sendTasks, deliveredTasks, chat, keyIn, keyOut>>
  /\ UNCHANGED <<returned, mongo_save_queue, saver, pushed, now>>

\* The status_update events of one mark_as_read: one per id, to socket s.
ReadEvents(s, ids) ==
  SetToBag({Event("status_update", s, id, "read", 0) : id \in ids})

\* MarkAsReadNotify notifying the reader `to` instead of the sender `from`.
MarkAsReadNotify_ToReader(t) ==
  /\ BagIn(t, readTasks)
  /\ t.pc = "notify"
  /\ LET senderSocketId == Lookup(t.inst, t.to)
     IN emitted' =
          IF senderSocketId # None
          THEN emitted (+) ReadEvents(senderSocketId, t.ids)
          ELSE emitted
  /\ readTasks' = readTasks (-) One(t)
  /\ UNCHANGED <<sockState, memberstackId, onlineUsers, track>>
  /\ UNCHANGED <<messages, nextId, statusReqs, errors>>
  /\ UNCHANGED <<sendTasks, deliveredTasks, chat, keyIn, keyOut>>
  /\ UNCHANGED <<returned, mongo_save_queue, saver, pushed, now>>

\* After the update: the sender `from` is looked up in this instance's
\* onlineUsers and, if found, sent one status_update per id.
MarkAsReadNotify(t) ==
  /\ BagIn(t, readTasks)
  /\ t.pc = "notify"
  /\ LET senderSocketId == Lookup(t.inst, t.from)
     IN emitted' =
          IF senderSocketId # None
          THEN emitted (+) ReadEvents(senderSocketId, t.ids)
          ELSE emitted
  /\ readTasks' = readTasks (-) One(t)
  /\ UNCHANGED <<sockState, memberstackId, onlineUsers, track>>
  /\ UNCHANGED <<messages, nextId, statusReqs, errors>>
  /\ UNCHANGED <<sendTasks, deliveredTasks, chat, keyIn, keyOut>>
  /\ UNCHANGED <<returned, mongo_save_queue, saver, pushed, now>>

\* ------------------------------------------------------------- presence
\* The connection lifecycle alone, on all sockets.
NextPresence ==
  \/ \E s \in Sockets : Connect(s)
  \/ \E s \in Sockets, u \in Users : Register(s, u)
  \/ \E s \in Sockets : Disconnect(s)

SpecPresence == Init /\ [][NextPresence]_vars

\* ------------------------------------------------------------- delivery
\* Sending and fan-out, with one socket on each instance; a send addresses
\* another identity than its sender.
NextDelivery ==
  \/ \E s \in SocketPair : Connect(s)
  \/ \E s \in SocketPair, u \in Users : Register(s, u)
  \/ \E s \in SocketPair : Disconnect(s)
  \/ \E s \in SocketPair, from \in Users, tempId \in TempIds, ok \in BOOLEAN :
        \E to \in Users \ {from} : SendMessage(s, from, to, tempId, ok)
  \/ \E t \in BagToSet(sendTasks) : SendAck(t)
  \/ \E t \in BagToSet(sendTasks), ok \in BOOLEAN : Publish(t, ok)
  \/ \E i \in Instances : BusDeliver(i)

SpecDelivery == Init /\ [][NextDelivery]_vars

\* ------------------------------------------------------------- status
\* The servers start on a Message collection that already holds documents
\* (all "sent"), written by earlier sends.
StoredMessages ==
  UNION {[1..n -> {[from |-> IdA, to |-> IdB], [from |-> IdB, to |-> IdA]}] :
           n \in 1..MaxStored}

InitStatus ==
  /\ sockState = [s \in Sockets |-> "new"]
  /\ memberstackId = [s \in Sockets |-> NoId]
  /\ onlineUsers = [i \in Instances |-> [u \in Users |-> None]]
  /\ \E f \in StoredMessages :
       /\ messages = [id \in DOMAIN f |->
            [_id |-> id, conversationId |-> ConversationId(f[id].from, f[id].to),
             from |-> f[id].from, to |-> f[id].to, status |-> "sent"]]
       /\ nextId = Len(f) + 1
  /\ statusReqs = 0
  /\ sendTasks = EmptyBag
  /\ deliveredTasks = EmptyBag
  /\ readTasks = EmptyBag
  /\ chat = [i \in Instances |-> <<>>]
  /\ emitted = EmptyBag
  /\ errors = {}
  /\ track = <<>>
  /\ keyIn = <<>>
  /\ keyOut = <<>>
  /\ returned = {}
  /\ mongo_save_queue = <<>>
  /\ saver = [i \in Instances |-> [pc |-> "brpop"]]
  /\ pushed = <<>>
  /\ now = 1

\* The status handlers, with one socket on each instance.
NextStatus ==
  \/ \E s \in SocketPair : Connect(s)
  \/ \E s \in SocketPair, u \in Users : Register(s, u)
  \/ \E s \in SocketPair : Disconnect(s)
  \/ \E s \in SocketPair, messageId \in DOMAIN messages \cup {nextId} :
        Delivered(s, messageId)
  \/ \E t \in BagToSet(deliveredTasks) : DeliveredSave(t)
  \/ \E t \in BagToSet(deliveredTasks) : DeliveredNotify(t)
  \/ \E s \in SocketPair, from \in Users :
        \E to \in Users \ {from} : MarkAsRead(s, from, to)
  \/ \E t \in BagToSet(readTasks) : MarkAsReadUpdate(t)
  \/ \E t \in BagToSet(readTasks) : MarkAsReadNotify(t)

SpecStatus == InitStatus /\ [][NextStatus]_vars

\* ------------------------------------------------------------- conversation key
\* The code units identities are built from here: "_", "a", "b".
Alphabet == {Underscore, 97, 98}

\* The non-empty strings of at most n code units.
StringsUpTo(n) == UNION {[1..k -> Alphabet] : k \in 1..n}

\* Any three identities are given to the derivation.
InitKey ==
  /\ sockState = [s \in Sockets |-> "new"]
  /\ memberstackId = [s \in Sockets |-> NoId]
  /\ onlineUsers = [i \in Instances |-> [u \in Users |-> None]]
  /\ messages = <<>>
  /\ nextId = 1
  /\ statusReqs = 0
  /\ sendTasks = EmptyBag
  /\ deliveredTasks = EmptyBag
  /\ readTasks = EmptyBag
  /\ chat = [i \in Instances |-> <<>>]
  /\ emitted = EmptyBag
  /\ errors = {}
  /\ track = <<>>
  /\ keyIn \in [a : StringsUpTo(MaxIdLen), b : StringsUpTo(MaxIdLen),
                c : StringsUpTo(MaxIdLen)]
  /\ keyOut = <<>>
  /\ returned = {}
  /\ mongo_save_queue = <<>>
  /\ saver = [i \in Instances |-> [pc |-> "brpop"]]
  /\ pushed = <<>>
  /\ now = 1

\* The conversationId of send_message and of /messages, for the pairs
\* (a, b), (b, a) and (a, c).
DeriveKeys ==
  /\ keyOut = <<>>
  /\ keyOut' = [ab |-> ConversationId(keyIn.a, keyIn.b),
                ba |-> ConversationId(keyIn.b, keyIn.a),
                ac |-> ConversationId(keyIn.a, keyIn.c)]
  /\ UNCHANGED <<sockState, memberstackId, onlineUsers, track, keyIn>>
  /\ UNCHANGED <<messages, nextId, statusReqs, emitted, errors>>
  /\ UNCHANGED <<sendTasks, deliveredTasks, readTasks, chat>>
  /\ UNCHANGED <<returned, mongo_save_queue, saver, pushed, now>>

NextKey == DeriveKeys

SpecKey == InitKey /\ [][NextKey]_vars

\* ------------------------------------------------------------- end to end
\* The two-party scenario: A (identity "a") and B (identity "b") are
\* connected and registered, on the same instance or on different ones, and
\* stay so; a third socket may connect and disconnect.  A sends one message
\* to B; B acknowledges it with delivered once it was pushed; B opens the
\* conversation (mark_as_read) once its delivered request has been handled.
\* No store or bus operation fails.
Placements ==
  {[a |-> "s1", b |-> "s2"], [a |-> "s1", b |-> "s3"],
   [a |-> "s3", b |-> "s1"], [a |-> "s2", b |-> "s1"]}

InitE2E ==
  /\ \E p \in Placements :
       /\ sockState = [s \in Sockets |-> IF s \in {p.a, p.b} THEN "open" ELSE "new"]
       /\ memberstackId = [s \in Sockets |->
            IF s = p.a THEN IdA ELSE IF s = p.b THEN IdB ELSE NoId]
       /\ onlineUsers = [i \in Instances |-> [u \in Users |->
            IF u = IdA /\ InstOf(p.a) = i THEN p.a
            ELSE IF u = IdB /\ InstOf(p.b) = i THEN p.b
            ELSE None]]
  /\ messages = <<>>
  /\ nextId = 1
  /\ statusReqs = 0
  /\ sendTasks = EmptyBag
  /\ deliveredTasks = EmptyBag
  /\ readTasks = EmptyBag
  /\ chat = [i \in Instances |-> <<>>]
  /\ emitted = EmptyBag
  /\ errors = {}
  /\ track = <<>>
  /\ keyIn = <<>>
  /\ keyOut = <<>>
  /\ returned = {}
  /\ mongo_save_queue = <<>>
  /\ saver = [i \in Instances |-> [pc |-> "brpop"]]
  /\ pushed = <<>>
  /\ now = 1

\* The sockets of A and of B.
SockA == CHOOSE s \in Sockets : memberstackId[s] = IdA
SockB == CHOOSE s \in Sockets : memberstackId[s] = IdB

\* A sends its one message.
E2ESend ==
  /\ nextId = 1
  /\ \E tempId \in TempIds : SendMessage(SockA, IdA, IdB, tempId, TRUE)

\* B, pushed the message, acknowledges it.
E2EDelivered ==
  /\ statusReqs = 0
  /\ \E e \in BagToSet(emitted) :
       /\ e.ev = "new_message" /\ e.sock = SockB
       /\ Delivered(SockB, e.id)

\* B, its delivered request handled, opens the conversation with A.
E2EOpen ==
  /\ statusReqs = 1
  /\ deliveredTasks = EmptyBag
  /\ MarkAsRead(SockB, IdA, IdB)

\* What the servers do on their own.
E2EServer ==
  \/ \E t \in BagToSet(sendTasks) : SendAck(t)
  \/ \E t \in BagToSet(sendTasks) : Publish(t, TRUE)
  \/ \E i \in Instances : BusDeliver(i)
  \/ \E t \in BagToSet(deliveredTasks) : DeliveredSave(t)
  \/ \E t \in BagToSet(deliveredTasks) : DeliveredNotify(t)
  \/ \E t \in BagToSet(readTasks) : MarkAsReadUpdate(t)
  \/ \E t \in BagToSet(readTasks) : MarkAsReadNotify(t)

\* The third socket comes and goes.
E2EBystander ==
  \/ \E s \in Sockets \ {SockA, SockB} : Connect(s)
  \/ \E s \in Sockets \ {SockA, SockB} : Disconnect(s)

NextE2E == E2ESend \/ E2EDelivered \/ E2EOpen \/ E2EServer \/ E2EBystander

\* Every continuation whose awaited operation has completed is run by the
\* event loop, every published event is handed to each subscriber, and the
\* two clients go on with the scenario.
SpecE2E ==
  /\ InitE2E
  /\ [][NextE2E]_vars
  /\ WF_vars(E2ESend)
  /\ WF_vars(E2EDelivered)
  /\ WF_vars(E2EOpen)
  /\ WF_vars(E2EServer)

\* ============================================================= claims
\* The sockets of instance i.
SocketsOf(i) == {s \in Sockets : InstOf(s) = i}

\* How many times event e has been emitted.
Count(e) == CopiesIn(e, emitted)

\* new_message pushes of message id emitted to socket s.
Pushes(id, s) == Count(Event("new_message", s, id, "sent", 0))

\* sent < delivered < read
Rank(status) ==
  CASE status = "sent" -> 0 [] status = "delivered" -> 1 [] status = "read" -> 2

\* ------------------------------------------------------------- C1
\* C1: a disconnect of a socket never removes or changes a registry entry
\* that holds another socket's handle: after X registers on C1, then on C2,
\* and C1 disconnects, the registry still maps X to C2.
C1_StaleDisconnectKeepsFresher ==
  [][\A s \in Sockets, u \in Users :
       (/\ sockState[s] = "open"
        /\ sockState'[s] = "closed"
        /\ onlineUsers[InstOf(s)][u] # s)
       => onlineUsers'[InstOf(s)][u] = onlineUsers[InstOf(s)][u]]_vars

\* ------------------------------------------------------------- C2
\* C2: the stored status of a message never moves backwards along
\* sent -> delivered -> read, whatever the interleaving of the handlers.
C2_StatusOnlyMovesForward ==
  [][\A id \in DOMAIN messages :
       id \in DOMAIN messages'
         => Rank(messages'[id].status) >= Rank(messages[id].status)]_vars

\* ------------------------------------------------------------- C3
\* C3: for a persisted and published message and every instance: nothing is
\* pushed by the instance before it handles the bus event; once it has, if
\* its registry mapped the recipient to one socket from the send until then,
\* exactly one new_message was pushed to that socket and none to another
\* socket of the instance; and if the recipient was unregistered on it
\* throughout, the instance pushed nothing.  The sender's instance plays no
\* part.
C3_OnePushPerRegisteredInstance ==
  \A id \in DOMAIN track : \A i \in Instances :
    LET r == track[id][i] IN
      /\ ~r.handled => \A s \in SocketsOf(i) : Pushes(id, s) = 0
      /\ (r.handled /\ r.reg = None) => \A s \in SocketsOf(i) : Pushes(id, s) = 0
      /\ (r.handled /\ r.reg \in Sockets) =>
            /\ Pushes(id, r.reg) = 1
            /\ \A s \in SocketsOf(i) \ {r.reg} : Pushes(id, s) = 0

\* A message sent from a socket of instance 1 was pushed once to the
\* recipient's socket on instance 2, where it stayed registered.
C3_Witness ==
  \E id \in DOMAIN track :
    /\ track[id][2].handled
    /\ track[id][2].reg = "s3"
    /\ Pushes(id, "s3") = 1
    /\ \E tempId \in TempIds : Count(Event("message_sent", "s1", id, "sent", tempId)) = 1

\* ------------------------------------------------------------- C4
\* C4: a message whose recipient has been registered on no instance from
\* the send on has been pushed to no socket, and it is in the store with
\* status "sent" under its conversation key: the history query of its two
\* parties, in either order, returns it.
C4_OfflineRecipientStoredNotPushed ==
  \A id \in DOMAIN track :
    (\A i \in Instances : track[id][i].reg = None) =>
      /\ \A s \in Sockets : Pushes(id, s) = 0
      /\ id \in DOMAIN messages
      /\ messages[id].status = "sent"
      /\ messages[id].conversationId = ConversationId(messages[id].from, messages[id].to)
      /\ LET m == messages[id]
             h1 == MessagesQuery(m.from, m.to, 0, DefaultLimit)
             h2 == MessagesQuery(m.to, m.from, 0, DefaultLimit)
         IN /\ \E k \in DOMAIN h1 : h1[k] = m
            /\ h2 = h1

\* Both instances have handled the event of a message whose recipient was
\* never registered.
C4_Witness ==
  \E id \in DOMAIN track :
    \A i \in Instances : track[id][i].handled /\ track[id][i].reg = None

\* ------------------------------------------------------------- C5
\* The ids of the sends whose insert failed.
FailedSends == {e.id : e \in {x \in errors : x.at = "send_message"}}

\* C5: a send whose insert failed leaves no trace but the log: the document
\* is not in the store, nothing about it was emitted (no message_sent, no
\* new_message), it is not and will not be on the bus; and the failing step
\* changes neither the store, the bus nor what was emitted.
C5_FailedInsertNotPublished ==
  /\ [](\A id \in FailedSends :
          /\ id \notin DOMAIN messages
          /\ \A e \in BagToSet(emitted) : e.id # id
          /\ \A t \in BagToSet(sendTasks) : t.msg._id # id
          /\ \A i \in Instances : \A k \in DOMAIN chat[i] : chat[i][k]._id # id)
  /\ [][FailedSends' # FailedSends =>
          /\ messages' = messages
          /\ chat' = chat
          /\ emitted' = emitted
          /\ sendTasks' = sendTasks]_vars

\* An insert has failed.
C5_Witness == FailedSends # {}

\* ------------------------------------------------------------- C6
\* C6: for every send whose insert failed, an acknowledgment of the failure
\* has been emitted (to the sender's socket).
C6_FailedInsertAcknowledged ==
  \A id \in FailedSends : \E e \in BagToSet(emitted) : e.id = id

\* ------------------------------------------------------------- C7
\* The events of the scenario, for its one message (id 1).
E2EPushed == Pushes(1, SockB) = 1
E2EDeliveredSeen == Count(Event("status_update", SockA, 1, "delivered", 0)) = 1
E2EReadSeen == Count(Event("status_update", SockA, 1, "read", 0)) = 1
E2EStoredRead == 1 \in DOMAIN messages /\ messages[1].status = "read"

\* B has made both requests and every handler has run to its end.
E2EFinished ==
  /\ statusReqs = 2
  /\ sendTasks = EmptyBag /\ deliveredTasks = EmptyBag /\ readTasks = EmptyBag
  /\ \A i \in Instances : chat[i] = <<>>

\* C7 as stated: wherever A and B are connected, once the scenario has run
\* to its end B was pushed the message, A was sent status_update
\* "delivered" and then "read", and the store holds "read".
C7_EndToEndAllNotified ==
  E2EFinished => E2EPushed /\ E2EDeliveredSeen /\ E2EReadSeen /\ E2EStoredRead

\* A and B are connected to the same instance.
E2ESameInstance == InstOf(SockA) = InstOf(SockB)

\* C7 amended: with A connected to the same instance as B, B is eventually
\* pushed new_message (status "sent"), A is then eventually sent
\* status_update "delivered", and then status_update "read" with the store
\* holding "read"; the events occur in this order, each once.  With A on
\* another instance B is still pushed the message and the store still ends
\* "read".
C7_EndToEndSameInstance ==
  /\ E2ESameInstance => <>(E2EPushed /\ E2EDeliveredSeen /\ E2EReadSeen /\ E2EStoredRead)
  /\ <>(E2EPushed /\ E2EStoredRead)
  /\ [](E2ESameInstance =>
          /\ Count(Event("status_update", SockA, 1, "delivered", 0)) <= 1
          /\ Count(Event("status_update", SockA, 1, "read", 0)) <= 1
          /\ E2EDeliveredSeen => E2EPushed /\ Rank(messages[1].status) >= 1
          /\ E2EReadSeen => E2EDeliveredSeen /\ E2EStoredRead)
  /\ [](Pushes(1, SockB) <= 1 /\ (E2EStoredRead => E2EPushed))

\* On one instance, the scenario has run to its end with every event seen.
C7_Witness ==
  /\ E2ESameInstance
  /\ E2EFinished
  /\ E2EPushed /\ E2EDeliveredSeen /\ E2EReadSeen /\ E2EStoredRead

\* ------------------------------------------------------------- C8
\* Whether identity x contains the separator.
HasSeparator(x) == \E k \in DOMAIN x : x[k] = Underscore

\* C8 as stated: for all identities a, b, c, key(a,b) = key(b,a), and
\* key(a,b) # key(a,c) whenever b # c.
C8_KeySymmetricInjective ==
  keyOut # <<>> =>
    /\ keyOut.ab = keyOut.ba
    /\ keyIn.b # keyIn.c => keyOut.ab # keyOut.ac

\* C8 amended: key(a,b) = key(b,a) for all identities, and key(a,b) #
\* key(a,c) whenever b # c and none of a, b, c contains the separator "_".
C8_KeyInjectiveWithoutSeparator ==
  keyOut # <<>> =>
    /\ keyOut.ab = keyOut.ba
    /\ (/\ keyIn.b # keyIn.c
        /\ ~HasSeparator(keyIn.a)
        /\ ~HasSeparator(keyIn.b)
        /\ ~HasSeparator(keyIn.c)) => keyOut.ab # keyOut.ac

\* The keys were derived for separator-free identities with b < a < c, so
\* that a is second in one key and first in the other.
C8_Witness ==
  /\ keyOut # <<>>
  /\ ~HasSeparator(keyIn.a) /\ ~HasSeparator(keyIn.b) /\ ~HasSeparator(keyIn.c)
  /\ StrLess(keyIn.b, keyIn.a) /\ StrLess(keyIn.a, keyIn.c)
  /\ Len(keyIn.a) > 1

\* ------------------------------------------------------------- C9
\* The step in which delivered handler t writes the store.
IsDeliveredSave(t) ==
  /\ t.pc = "save"
  /\ deliveredTasks' =
       (deliveredTasks (-) One(t)) (+) One([t EXCEPT !.pc = "notify"])

\* The step in which delivered handler t, the save done, notifies.
IsDeliveredNotify(t) ==
  /\ t.pc = "notify"
  /\ deliveredTasks' = deliveredTasks (-) One(t)

\* The status_update "delivered" events emitted so far.
DeliveredUpdates ==
  {e \in BagToSet(emitted) : e.ev = "status_update" /\ e.status = "delivered"}

IsReadUpdate(t) ==
  /\ t.pc = "update"
  /\ readTasks' = (readTasks (-) One(t)) (+) One([t EXCEPT !.pc = "notify"])

\* The step in which mark_as_read handler t notifies and completes.
IsReadNotify(t) ==
  /\ t.pc = "notify"
  /\ readTasks' = readTasks (-) One(t)

\* C10: when a mark_as_read({from, to}) handler completes, every message it
\* found unread at its start has store status "read" and `from`, if
\* registered on the instance, has been sent one status_update "read" per
\* such message; its write leaves every other message as it was.
C10_MarkAsReadCompletesAllRead ==
  [][\A t \in BagToSet(readTasks) :
       /\ IsReadNotify(t) =>
            /\ \A id \in t.ids : messages'[id].status = "read"
            /\ emitted' =
                 IF onlineUsers[t.inst][t.from] # None
                 THEN emitted (+) ReadEvents(onlineUsers[t.inst][t.from], t.ids)
                 ELSE emitted
       /\ IsReadUpdate(t) =>
            \A id \in DOMAIN messages \ t.ids : messages'[id] = messages[id]]_vars

\* ------------------------------------------------------------- C12
\* C12: once a socket has disconnected, no entry of its instance's
\* onlineUsers holds its handle, whatever identities it registered under
\* before.
C12_DisconnectClearsAllEntries ==
  \A s \in Sockets :
    sockState[s] = "closed" =>
      \A u \in Users : onlineUsers[InstOf(s)][u] # s

\* ------------------------------------------------------------- C13
\* C13: a delivered request for a message that is not in the store, or whose
\* stored status is "delivered" or "read", changes nothing: the store is as
\* before, nothing is emitted to any socket, nothing is logged or raised, and
\* no continuation of the handler is left behind.
C13_DeliveredPastTargetIsNoOp ==
  [][\A s \in SocketPair, messageId \in DOMAIN messages \cup {nextId} :
       (/\ Delivered(s, messageId)
        /\ ~(messageId \in DOMAIN messages /\ messages[messageId].status = "sent"))
       => /\ messages' = messages
          /\ emitted' = emitted
          /\ errors' = errors
          /\ deliveredTasks' = deliveredTasks
          /\ readTasks' = readTasks]_vars

\* A delivered request has met a message already "delivered" or "read", and
\* every handler has finished.
C13_Witness ==
  /\ \E r \in returned : r.status \in {"delivered", "read"}
  /\ deliveredTasks = EmptyBag /\ readTasks = EmptyBag

\* ------------------------------------------------------------- C14
\* The message_sent events emitted for message id, to any socket.
AckEvents(id) == {e \in BagToSet(emitted) : e.ev = "message_sent" /\ e.id = id}

\* The send handlers of message id that have inserted and not yet emitted.
AwaitingAck(id) == {t \in BagToSet(sendTasks) : t.pc = "ack" /\ t.msg._id = id}

\* C14: for every inserted message: while its handler has not resumed after
\* the insert no message_sent exists for it and nothing keeps the handler
\* from emitting it; from then on exactly one message_sent exists for it,
\* with status "sent" and the client's tempId, whatever the registry holds
\* and whatever becomes of the publish.  The emitting step sends it to the
\* handler's own socket, with the id the store holds.
C14_InsertedSendAcknowledgedOnce ==
  /\ [](\A id \in DOMAIN messages :
          IF AwaitingAck(id) # {}
          THEN /\ AckEvents(id) = {}
               /\ \A t \in AwaitingAck(id) : ENABLED SendAck(t)
          ELSE \E e \in AckEvents(id) :
                 /\ AckEvents(id) = {e}
                 /\ Count(e) = 1
                 /\ e.status = "sent"
                 /\ e.tempId \in TempIds)
  /\ [][\A t \in BagToSet(sendTasks) :
          (t.pc = "ack" /\ [t EXCEPT !.pc = "publish"] \in BagToSet(sendTasks')) =>
             /\ t.msg._id \in DOMAIN messages
             /\ messages[t.msg._id]._id = t.msg._id
             /\ emitted' = emitted (+)
                  One(Event("message_sent", t.sock, t.msg._id, "sent", t.tempId))]_vars

\* A message was acknowledged to its sender although its recipient was
\* registered nowhere since the send and its publish failed.
C14_Witness ==
  \E id \in DOMAIN messages :
    /\ \E tempId \in TempIds :
         Count(Event("message_sent", "s1", id, "sent", tempId)) = 1
    /\ \A i \in Instances : track[id][i].reg = None
    /\ [at |-> "publish", id |-> id] \in errors

\* ============================================================= queued persistence
\* The server of lines 196-341: send_message publishes and then pushes the
\* message onto the Redis list "mongo_save_queue"; mongoSaverWorker, one per
\* instance, pops the list and inserts into the store.  Its Message schema
\* has no status and no conversationId; a message is told apart by its
\* createdAt.

\* The handler up to its first await: the message is built and published on
\* "chat" (ok), or the publish rejects and the catch logs it (~ok).
QueuedSend(s, from, to, ok) ==
  /\ sockState[s] = "open"
  /\ now <= MaxQueued
  /\ LET msg == [from |-> from, to |-> to, text |-> "hi", createdAt |-> now]
     IN IF ok
        THEN /\ chat' = [i \in Instances |-> Append(chat[i], msg)]
             /\ sendTasks' = sendTasks (+) One([pc |-> "lpush", sock |-> s, msg |-> msg])
             /\ UNCHANGED errors
        ELSE /\ errors' = errors \cup {[at |-> "publish", id |-> now]}
             /\ UNCHANGED <<chat, sendTasks>>
  /\ now' = now + 1
  /\ UNCHANGED <<sockState, memberstackId, onlineUsers, track>>
  /\ UNCHANGED <<messages, nextId, statusReqs, emitted>>
  /\ UNCHANGED <<deliveredTasks, readTasks, keyIn, keyOut>>
  /\ UNCHANGED <<returned, mongo_save_queue, saver, pushed>>

\* redisPub.lpush("mongo_save_queue", ...): the message becomes the head of
\* the list (ok), or the push rejects and the catch logs it (~ok).
QueuedPush(t, ok) ==
  /\ BagIn(t, sendTasks)
  /\ t.pc = "lpush"
  /\ sendTasks' = sendTasks (-) One(t)
  /\ IF ok
     THEN /\ mongo_save_queue' = <<t.msg>> \o mongo_save_queue
          /\ pushed' = Append(pushed, t.msg.createdAt)
          /\ UNCHANGED errors
     ELSE /\ errors' = errors \cup {[at |-> "lpush", id |-> t.msg.createdAt]}
          /\ UNCHANGED <<mongo_save_queue, pushed>>
  /\ UNCHANGED <<sockState, memberstackId, onlineUsers, track>>
  /\ UNCHANGED <<messages, nextId, statusReqs, emitted>>
  /\ UNCHANGED <<deliveredTasks, readTasks, chat, keyIn, keyOut>>
  /\ UNCHANGED <<returned, saver, now>>

\* redisSub.on("message") of the queued server, on instance i
QueuedBusDeliver(i) ==
  /\ chat[i] # <<>>
  /\ LET msg == Head(chat[i])
         receiverSocketId == Lookup(i, msg.to)
     IN emitted' =
          IF receiverSocketId # None
          THEN emitted (+)
                 One(Event("new_message", receiverSocketId, msg.createdAt, None, 0))
          ELSE emitted
  /\ chat' = [chat EXCEPT ![i] = Tail(chat[i])]
  /\ UNCHANGED <<sockState, memberstackId, onlineUsers, track>>
  /\ UNCHANGED <<messages, nextId, statusReqs, errors>>
  /\ UNCHANGED <<sendTasks, deliveredTasks, readTasks, keyIn, keyOut>>
  /\ UNCHANGED <<returned, mongo_save_queue, saver, pushed, now>>

\* SaverPop taking the head of the list (lpop), the newest message.
SaverPop_Head(i) ==
  /\ saver[i].pc = "brpop"
  /\ mongo_save_queue # <<>>
  /\ saver' = [saver EXCEPT ![i] = [pc |-> "create", msg |-> Head(mongo_save_queue)]]
  /\ mongo_save_queue' = Tail(mongo_save_queue)
  /\ UNCHANGED <<sockState, memberstackId, onlineUsers, track>>
  /\ UNCHANGED <<messages, nextId, statusReqs, emitted, errors>>
  /\ UNCHANGED <<sendTasks, deliveredTasks, readTasks, chat, keyIn, keyOut>>
  /\ UNCHANGED <<returned, pushed, now>>

\* redisQueue.brpop("mongo_save_queue", 0) of instance i's worker returns:
\* the tail of the list is removed and handed to the worker.
SaverPop(i) ==
  /\ saver[i].pc = "brpop"
  /\ mongo_save_queue # <<>>
  /\ saver' = [saver EXCEPT ![i] =
       [pc |-> "create", msg |-> mongo_save_queue[Len(mongo_save_queue)]]]
  /\ mongo_save_queue' = SubSeq(mongo_save_queue, 1, Len(mongo_save_queue) - 1)
  /\ UNCHANGED <<sockState, memberstackId, onlineUsers, track>>
  /\ UNCHANGED <<messages, nextId, statusReqs, emitted, errors>>
  /\ UNCHANGED <<sendTasks, deliveredTasks, readTasks, chat, keyIn, keyOut>>
  /\ UNCHANGED <<returned, pushed, now>>

\* SaverInsert leaving the loop when the insert fails.
SaverInsert_StopOnFailure(i, ok) ==
  /\ saver[i].pc = "create"
  /\ IF ok
     THEN /\ messages' = (nextId :> [_id |-> nextId, from |-> saver[i].msg.from,
                                     to |-> saver[i].msg.to, text |-> saver[i].msg.text,
                                     createdAt |-> saver[i].msg.createdAt]) @@ messages
          /\ nextId' = nextId + 1
          /\ saver' = [saver EXCEPT ![i] = [pc |-> "brpop"]]
          /\ UNCHANGED errors
     ELSE /\ errors' = errors \cup
               {[at |-> "mongoSaverWorker", id |-> saver[i].msg.createdAt]}
          /\ saver' = [saver EXCEPT ![i] = [pc |-> "stopped"]]
          /\ UNCHANGED <<messages, nextId>>
  /\ UNCHANGED <<sockState, memberstackId, onlineUsers, track>>
  /\ UNCHANGED <<statusReqs, emitted>>
  /\ UNCHANGED <<sendTasks, deliveredTasks, readTasks, chat, keyIn, keyOut>>
  /\ UNCHANGED <<returned, mongo_save_queue, pushed, now>>

\* Message.create(msg) of instance i's worker: the document is inserted
\* (ok), or the insert rejects and the catch logs it (~ok); either way the
\* loop goes round to the next brpop.
SaverInsert(i, ok) ==
  /\ saver[i].pc = "create"
  /\ IF ok
     THEN /\ messages' = (nextId :> [_id |-> nextId, from |-> saver[i].msg.from,
                                     to |-> saver[i].msg.to, text |-> saver[i].msg.text,
                                     createdAt |-> saver[i].msg.createdAt]) @@ messages
          /\ nextId' = nextId + 1
          /\ UNCHANGED errors
     ELSE /\ errors' = errors \cup
               {[at |-> "mongoSaverWorker", id |-> saver[i].msg.createdAt]}
          /\ UNCHANGED <<messages, nextId>>
  /\ saver' = [saver EXCEPT ![i] = [pc |-> "brpop"]]
  /\ UNCHANGED <<sockState, memberstackId, onlineUsers, track>>
  /\ UNCHANGED <<statusReqs, emitted>>
  /\ UNCHANGED <<sendTasks, deliveredTasks, readTasks, chat, keyIn, keyOut>>
  /\ UNCHANGED <<returned, mongo_save_queue, pushed, now>>

\* GET /messages?user1=..&user2=.. of the queued server: the documents
\* between the two users, by createdAt ascending.
QueuedMessagesQuery(user1, user2) ==
  LET found == {id \in DOMAIN messages :
                  \/ messages[id].from = user1 /\ messages[id].to = user2
                  \/ messages[id].from = user2 /\ messages[id].to = user1}
      order == CHOOSE f \in [1..Cardinality(found) -> found] :
                 \A i, j \in 1..Cardinality(found) :
                   i < j => messages[f[i]].createdAt < messages[f[j]].createdAt
  IN [k \in 1..Cardinality(found) |-> messages[order[k]]]

\* The queued servers start with "a" connected and registered on instance 1
\* and "b" on instance 2.
InitQueue ==
  /\ sockState = [s \in Sockets |-> IF s \in SocketPair THEN "open" ELSE "new"]
  /\ memberstackId = [s \in Sockets |->
       IF s = "s1" THEN IdA ELSE IF s = "s3" THEN IdB ELSE NoId]
  /\ onlineUsers = [i \in Instances |-> [u \in Users |->
       IF i = 1 /\ u = IdA THEN "s1" ELSE IF i = 2 /\ u = IdB THEN "s3" ELSE None]]
  /\ messages = <<>>
  /\ nextId = 1
  /\ statusReqs = 0
  /\ sendTasks = EmptyBag
  /\ deliveredTasks = EmptyBag
  /\ readTasks = EmptyBag
  /\ chat = [i \in Instances |-> <<>>]
  /\ emitted = EmptyBag
  /\ errors = {}
  /\ track = <<>>
  /\ keyIn = <<>>
  /\ keyOut = <<>>
  /\ returned = {}
  /\ mongo_save_queue = <<>>
  /\ saver = [i \in Instances |-> [pc |-> "brpop"]]
  /\ pushed = <<>>
  /\ now = 1

\* The queued server with one socket on each instance and a worker on each;
\* the two clients stay connected and either may send to the other.
NextQueue ==
  \/ \E s \in SocketPair, ok \in BOOLEAN :
        \E to \in Users \ {memberstackId[s]} : QueuedSend(s, memberstackId[s], to, ok)
  \/ \E t \in BagToSet(sendTasks), ok \in BOOLEAN : QueuedPush(t, ok)
  \/ \E i \in Instances : QueuedBusDeliver(i)
  \/ \E i \in Instances : SaverPop(i)
  \/ \E i \in Instances, ok \in BOOLEAN : SaverInsert(i, ok)

\* The event loop runs every continuation whose awaited operation has
\* completed, each subscriber is handed every published event, and each
\* worker's brpop returns when the list is not empty.
SpecQueue ==
  /\ InitQueue
  /\ [][NextQueue]_vars
  /\ WF_vars(\E t \in BagToSet(sendTasks), ok \in BOOLEAN : QueuedPush(t, ok))
  /\ \A i \in Instances :
       /\ WF_vars(QueuedBusDeliver(i))
       /\ WF_vars(SaverPop(i))
       /\ WF_vars(\E ok \in BOOLEAN : SaverInsert(i, ok))

\* ============================================================= claims (queued)
\* The createdAt of the messages in the list, held by a worker, in the store.
Queued == {mongo_save_queue[k].createdAt : k \in DOMAIN mongo_save_queue}
Held == {saver[i].msg.createdAt : i \in {j \in Instances : saver[j].pc = "create"}}
Stored == {messages[id].createdAt : id \in DOMAIN messages}
\* The messages whose insert the worker has seen fail.
FailedInserts == {e.id : e \in {x \in errors : x.at = "mongoSaverWorker"}}
\* The messages that have been published on the bus.
Published ==
  {t.msg.createdAt : t \in BagToSet(sendTasks)}
    \cup UNION {{chat[i][k].createdAt : k \in DOMAIN chat[i]} : i \in Instances}
    \cup {e.id : e \in {x \in BagToSet(emitted) : x.ev = "new_message"}}
\* The messages whose send_message handler ran to its end without an error.
Accepted == {pushed[k] : k \in DOMAIN pushed}

\* ------------------------------------------------------------- C11
\* C11: every accepted queued send has been acknowledged to its sender
\* (message_sent) by the time its document is in the store, and every
\* accepted send is eventually in the store and in the history of its
\* conversation.
C11_QueuedSendAcknowledgedThenStored ==
  /\ [](\A id \in DOMAIN messages :
          \E e \in BagToSet(emitted) :
            e.ev = "message_sent" /\ e.id = messages[id].createdAt)
  /\ \A n \in 1..MaxQueued :
       [](n \in Accepted =>
            <>(/\ n \in Stored
               /\ \E id \in DOMAIN messages :
                    /\ messages[id].createdAt = n
                    /\ LET h == QueuedMessagesQuery(messages[id].from, messages[id].to)
                       IN \E k \in DOMAIN h : h[k] = messages[id]))

\* ------------------------------------------------------------- C15
\* C15: a message whose insert failed in the drain loop is not lost: it is
\* back in the list, held by a worker, or in the store.
C15_FailedInsertRetried ==
  \A n \in FailedInserts : n \in Queued \cup Held \cup Stored

\* ------------------------------------------------------------- C16
\* C16: a message that has been published on the bus (or pushed to a
\* recipient as new_message) is in the write queue, held by a drain loop, or
\* in the store.
C16_QueuedBeforePublished ==
  \A n \in Published : n \in Queued \cup Held \cup Stored

\* ------------------------------------------------------------- C17
\* C17: no worker ever leaves its loop: it is always either blocked in brpop
\* or inserting; a failed insert takes it back to brpop; and every message
\* in the list is eventually dequeued and given to the store, ending in the
\* store if the store accepts it (and in the log if not), however many
\* inserts failed before.
C17_DrainLoopSurvivesFailure ==
  /\ [](\A i \in Instances : saver[i].pc \in {"brpop", "create"})
  /\ [][\A i \in Instances :
          (saver[i].pc = "create" /\ saver[i].msg.createdAt \in FailedInserts')
            => saver'[i].pc = "brpop"]_vars
  /\ \A n \in 1..MaxQueued :
       [](n \in Queued => <>(n \in Stored \cup FailedInserts))

\* A message pushed after one whose insert failed is in the store.
C17_Witness ==
  \E k, l \in DOMAIN pushed :
    /\ k < l
    /\ pushed[k] \in FailedInserts
    /\ pushed[l] \in Stored

\* ------------------------------------------------------------- C18
\* The place of message n in the order of the pushes.
PushIndex(n) == CHOOSE k \in DOMAIN pushed : pushed[k] = n

\* Instance i's worker performs an insert in this step.
IsInsert(i) == saver[i].pc = "create" /\ saver'[i].pc = "brpop"

\* C18 as stated: whichever instance's worker performs an insert, every
\* message pushed before the inserted one has had its insert performed
\* already.
C18_InsertsFollowPushOrder ==
  [][\A i \in Instances :
       IsInsert(i) =>
         \A k \in 1..(PushIndex(saver[i].msg.createdAt) - 1) :
           pushed[k] \in Stored \cup FailedInserts]_vars

\* C18 amended: the list is FIFO at the dequeue: when a worker is handed a
\* message, every message pushed before it has left the list.  When a
\* worker performs an insert, every message pushed before the inserted one
\* has had its insert performed, or is held by another instance's worker
\* between its brpop and its insert: one drain loop inserts in push order.
C18_DequeueFollowsPushOrder ==
  /\ [][\A i \in Instances :
          (saver[i].pc = "brpop" /\ saver'[i].pc = "create") =>
            \A k \in 1..(PushIndex(saver'[i].msg.createdAt) - 1) :
              pushed[k] \notin Queued]_vars
  /\ [][\A i \in Instances :
          IsInsert(i) =>
            \A k \in 1..(PushIndex(saver[i].msg.createdAt) - 1) :
              \/ pushed[k] \in Stored \cup FailedInserts
              \/ \E j \in Instances \ {i} :
                   saver[j].pc = "create" /\ saver[j].msg.createdAt = pushed[k]]_vars

\* Two messages are in the store in the order they were pushed.
C18_Witness ==
  /\ Len(pushed) >= 2
  /\ {1, 2} \subseteq DOMAIN messages
  /\ messages[1].createdAt = pushed[1]
  /\ messages[2].createdAt = pushed[2]

\* ------------------------------------------------------------- C19
\* Instance i handles the bus event at the head of its subscription.
IsBusDeliver(i) == chat[i] # <<>> /\ chat'[i] = Tail(chat[i])

\* C19: when instance i handles the bus event of message m, the only thing
\* emitted is one new_message for m to the socket that onlineUsers of i maps
\* m.to to at that moment, and nothing at all if it has no entry; a socket
\* that the registry maps only other identities to (the sender's included)
\* is emitted nothing.
C19_PushOnlyToRegisteredRecipient ==
  [][\A i \in Instances :
       IsBusDeliver(i) =>
         LET msg == Head(chat[i])
             receiverSocketId == onlineUsers[i][msg.to]
         IN /\ receiverSocketId = None => emitted' = emitted
            /\ receiverSocketId # None =>
                 emitted' = emitted (+)
                   One(Event("new_message", receiverSocketId, msg._id, msg.status, 0))
            /\ \A s \in Sockets \ {receiverSocketId} :
                 \A e \in BagToSet(emitted') :
                   e.sock = s => CopiesIn(e, emitted') = CopiesIn(e, emitted)]_vars

\* Both instances have handled the event of one message: instance 2 pushed
\* it to the recipient's socket, and instance 1, where only the sender is
\* registered, emitted no new_message.
C19_Witness ==
  \E id \in DOMAIN messages :
    /\ \A i \in Instances : track[id][i].handled
    /\ Pushes(id, "s3") = 1
    /\ Pushes(id, "s1") = 0
    /\ onlineUsers[1][messages[id].from] = "s1"
    /\ onlineUsers[1][messages[id].to] = None

\* ------------------------------------------------------------- C20
\* The status_update events with this status emitted for message id, to any
\* socket, counted with their repetitions.
StatusUpdates(id, status) ==
  BagCardinality([e \in {x \in BagToSet(emitted) :
                           x.ev = "status_update" /\ x.id = id /\ x.status = status}
                    |-> CopiesIn(e, emitted)])

\* C20: for every message and each of the statuses "delivered" and "read",
\* at most one status_update with that message and status has been emitted.
C20_OneStatusUpdatePerTransition ==
  \A id \in DOMAIN messages : \A status \in {"delivered", "read"} :
    StatusUpdates(id, status) <= 1

====
